---------------------------- MODULE Spec2Model ----------------------------
(***************************************************************************)
(* Model of admin_finder.py: the AdminFinder scanner (a pool of worker     *)
(* threads draining a queue.Queue of candidate paths), its response        *)
(* classification heuristic _analyze_response, and the main() driver.      *)
(*                                                                         *)
(* Text is modelled by TLA+ strings; Len, SubSeq and \o act on them        *)
(* character by character.  The module is kept in ASCII, so each of the    *)
(* four CJK characters of admin_keywords is written as one reserved ASCII  *)
(* character that occurs nowhere else in the modelled texts:               *)
(*     U+7BA1 -> "%"    U+7406 -> "&"    U+540E -> "@"    U+53F0 -> "#"    *)
(* str.lower() leaves all four unchanged, and so does Lower below.         *)
(*                                                                         *)
(* Environment: the target host answers a probe of a path with a response  *)
(* or the request fails with a RequestException (variable site); writes to  *)
(* stdout and to the log succeed.  The one exception of another class that  *)
(* the model raises is the ValueError of urljoin for a malformed path.      *)
(*                                                                         *)
(* A worker step is either the get() of line 48 or everything from line 52 *)
(* to the task_done() of line 85: between those two a worker shares no      *)
(* state with the other threads except through list.append and the queue, *)
(* and the main thread is blocked in join() until task_done() has run.     *)
(*                                                                         *)
(* Each queue item carries the number of the put that added it (seq); puts, *)
(* dequeued and requested are history variables indexed by that number.    *)
(***************************************************************************)
EXTENDS Integers, Sequences, FiniteSets, TLC

(***************************************************************************)
(* Bounds of the model.                                                    *)
(***************************************************************************)
MaxFrags == 3       \* a response body is made of at most MaxFrags fragments
MaxThreads == 2     \* -t/--threads ranges over 0..MaxThreads
MaxLines == 2       \* a path file has at most MaxLines lines
MaxFileLines == 5   \* ... and at most MaxFileLines lines in PathSpec

(***************************************************************************)
(* Python string primitives used by the program.                           *)
(***************************************************************************)
Min(S) == CHOOSE m \in S : \A n \in S : m <= n

\* one character of str.lower()
LowerChar(c) ==
    CASE c = "A" -> "a" [] c = "B" -> "b" [] c = "C" -> "c" [] c = "D" -> "d"
      [] c = "E" -> "e" [] c = "F" -> "f" [] c = "G" -> "g" [] c = "H" -> "h"
      [] c = "I" -> "i" [] c = "J" -> "j" [] c = "K" -> "k" [] c = "L" -> "l"
      [] c = "M" -> "m" [] c = "N" -> "n" [] c = "O" -> "o" [] c = "P" -> "p"
      [] c = "Q" -> "q" [] c = "R" -> "r" [] c = "S" -> "s" [] c = "T" -> "t"
      [] c = "U" -> "u" [] c = "V" -> "v" [] c = "W" -> "w" [] c = "X" -> "x"
      [] c = "Y" -> "y" [] c = "Z" -> "z" [] OTHER -> c

RECURSIVE Lower(_)
\* str.lower()
Lower(s) ==
    IF s = "" THEN ""
    ELSE LowerChar(SubSeq(s, 1, 1)) \o Lower(SubSeq(s, 2, Len(s)))

\* str.find(sub): the lowest 0-based index at which sub occurs in s, else -1
Find(s, sub) ==
    LET at == {i \in 0..(Len(s) - Len(sub)) : SubSeq(s, i + 1, i + Len(sub)) = sub}
    IN  IF at = {} THEN -1 ELSE Min(at)

\* the Python expression  sub in s
In(sub, s) == Find(s, sub) # -1

\* the Python slice s[a:b] for 0 <= a <= b <= len(s)
Slice(s, a, b) == SubSeq(s, a + 1, b)

\* str.startswith(prefix)
StartsWith(s, prefix) ==
    Len(s) >= Len(prefix) /\ SubSeq(s, 1, Len(prefix)) = prefix

(***************************************************************************)
(* AdminFinder._analyze_response                                           *)
(***************************************************************************)
EligibleStatus_with404 == {200, 401, 403, 404}

\* the status codes of line 97
EligibleStatus == {200, 401, 403}

login_keywords ==
    <<"login", "admin", "dashboard", "sign in", "authentication", "auth", "password">>

admin_keywords == <<"admin", "%&", "@#", "dashboard", "control panel">>

Content_unlowered(response) == response.text

\* content = response.text.lower()
Content(response) == Lower(response.text)

\* for keyword in keywords: if keyword in text: return True
AnyKeywordIn(keywords, text) ==
    \E k \in 1..Len(keywords) : In(keywords[k], text)

title_start(content) == Find(content, "<title>") + 7

title_end(content) == Find(content, "</title>")

\* the first test of line 108: the title is looked at only if this holds
TitleTagSeen(content) == title_start(content) > 7

\* the guard of line 108
TitleFound(content) ==
    TitleTagSeen(content) /\ title_end(content) > title_start(content)

\* title = content[title_start:title_end].lower()
Title(content) == Lower(Slice(content, title_start(content), title_end(content)))

\* The return statement that decides the verdict:
\*   "body"   line 103 (a login keyword occurs in the body)
\*   "title"  line 113 (an admin keyword occurs in the title)
\*   "none"   line 115
AnalyzeReturn(response) ==
    IF response.status_code \in EligibleStatus
    THEN LET content == Content(response)
         IN  IF AnyKeywordIn(login_keywords, content) THEN "body"
             ELSE IF TitleFound(content) /\ AnyKeywordIn(admin_keywords, Title(content))
                  THEN "title"
                  ELSE "none"
    ELSE "none"

_analyze_response(response) == AnalyzeReturn(response) # "none"

(***************************************************************************)
(* The responses the heuristic is exercised on: a status code and a body   *)
(* that is a concatenation of at most MaxFrags fragments.                  *)
(***************************************************************************)
Fragments ==
    {"Admin Login", "Dashboard", "sign in", "authentication", "OAuth",
     "password", "<title>", "<html><title>", "</title>", "Control Panel",
     "%&", "@#", "x"}

StatusCodes == {200, 401, 403, 404, 500}

RECURSIVE BodiesUpTo(_)
BodiesUpTo(k) ==
    IF k = 0 THEN {""}
    ELSE LET shorter == BodiesUpTo(k - 1)
         IN  shorter \cup {b \o f : b \in shorter, f \in Fragments}

Responses == [status_code : StatusCodes, text : BodiesUpTo(MaxFrags)]

(***************************************************************************)
(* Module-level data of admin_finder.py and the inputs of a scan.          *)
(***************************************************************************)
COMMON_ADMIN_PATHS ==
    <<"admin", "login", "wp-admin", "dashboard", "manage", "backend",
      "admin.php", "login.php", "admin/login", "admin/index", "cms",
      "system", "webadmin", "administrator", "control", "admincp",
      "manage.php", "admin_area", "admin_login", "auth/login", "admin_panel">>

USER_AGENT ==
    "Mozilla/5.0 (Windows NT 10.0; Win64; x64) AppleWebKit/537.36 (KHTML, like Gecko) Chrome/91.0.4472.124 Safari/537.36"

DefaultTimeout == 10

None == "None"          \* the Python value None (the shutdown sentinel)
NoFile == "NoFile"      \* args.file when -f is not given
ValueError == "ValueError"

Range(f) == {f[i] : i \in DOMAIN f}

\* characters removed by str.strip()
Whitespace == {" ", "\n", "\t", "\r"}

RECURSIVE LStrip(_)
LStrip(s) ==
    IF s # "" /\ SubSeq(s, 1, 1) \in Whitespace THEN LStrip(SubSeq(s, 2, Len(s))) ELSE s

RECURSIVE RStrip(_)
RStrip(s) ==
    IF s # "" /\ SubSeq(s, Len(s), Len(s)) \in Whitespace
    THEN RStrip(SubSeq(s, 1, Len(s) - 1)) ELSE s

\* str.strip()
Strip(s) == RStrip(LStrip(s))

RECURSIVE ReadPaths_unfiltered(_)
ReadPaths_unfiltered(lines) ==
    IF lines = <<>> THEN <<>>
    ELSE <<Strip(Head(lines))>> \o ReadPaths_unfiltered(Tail(lines))

RECURSIVE ReadPaths(_)
\* [line.strip() for line in f if line.strip()]
ReadPaths(lines) ==
    IF lines = <<>> THEN <<>>
    ELSE IF Strip(Head(lines)) # ""
         THEN <<Strip(Head(lines))>> \o ReadPaths(Tail(lines))
         ELSE ReadPaths(Tail(lines))

\* args.url.startswith(('http://', 'https://'))
ValidUrl(url) == StartsWith(url, "http://") \/ StartsWith(url, "https://")

\* urllib.parse.urljoin(base, path) for a base URL with an empty path:
\* a reference whose network location opens a bracket that is never closed
\* makes urlsplit raise ValueError("Invalid IPv6 URL"); a reference that
\* starts with "/" replaces the path; any other reference is appended.
urljoin(base, path) ==
    IF StartsWith(path, "//") /\ In("[", path) /\ ~In("]", path) THEN ValueError
    ELSE IF StartsWith(path, "/") THEN base \o path
    ELSE base \o "/" \o path

RECURSIVE SetToSeq(_)
SetToSeq(S) ==
    IF S = {} THEN <<>>
    ELSE LET e == CHOOSE x \in S : TRUE IN <<e>> \o SetToSeq(S \ {e})

\* the lines a path file may hold, as iteration over the file yields them
RawLines == {"admin\n", " login.php \n", " \n", "//[x\n"}

RECURSIVE SeqsUpTo(_, _)
SeqsUpTo(S, n) ==
    IF n = 0 THEN {<<>>}
    ELSE LET shorter == SeqsUpTo(S, n - 1)
         IN  shorter \cup {Append(q, e) : q \in shorter, e \in S}

Unreadable == [readable |-> FALSE, lines |-> <<>>]     \* open() or the read raises

\* what is on disk under the name given with -f
Disks == [readable : {TRUE}, lines : SeqsUpTo(RawLines, MaxLines)] \cup {Unreadable}

Urls == {"http://example.com", "https://example.com", "ftp://example.com", "example.com"}

\* -v only selects whether line 78 prints, so it is varied on the scans of a
\* path file alone
Args ==
    [url : Urls, threads : 0..MaxThreads, timeout : {DefaultTimeout},
     verbose : {FALSE}, file : {NoFile, "paths.txt"}]
    \cup
    [url : {"http://example.com"}, threads : 0..MaxThreads,
     timeout : {DefaultTimeout}, verbose : {TRUE}, file : {"paths.txt"}]

\* What the target host does with a probe: answers, or the request fails
\* with a requests.exceptions.RequestException.
RequestExceptions == {"ConnectionError", "Timeout"}

HttpResponse(status, text) ==
    [kind |-> "response", status_code |-> status, text |-> text, elapsed |-> 1]

Failure(e) == [kind |-> e]

NotFound == HttpResponse(404, "Not Found")

Outcomes ==
    {HttpResponse(200, "Admin Login"), HttpResponse(404, "admin"), Failure("Timeout")}

\* the paths on which the modelled hosts differ
VariedPaths == {"admin"}

\* what every modelled host does with the other paths
FixedOutcome(p) ==
    IF p = "login.php" THEN Failure("ConnectionError")
    ELSE IF p = "dashboard" THEN HttpResponse(200, "<html><title>Control Panel</title>")
    ELSE NotFound

AllPaths == Range(COMMON_ADMIN_PATHS) \cup Range(ReadPaths(SetToSeq(RawLines)))

Sites ==
    {[p \in AllPaths |-> IF p \in VariedPaths THEN f[p] ELSE FixedOutcome(p)] :
        f \in [VariedPaths -> Outcomes]}

(***************************************************************************)
(* State.                                                                  *)
(***************************************************************************)
VARIABLES
    response, verdict,  \* the response under classification and its verdict
    args,               \* the parsed command line
    disk,               \* the content of the path file
    site,               \* the target host: path -> outcome of a probe
    pc,                 \* position of the main thread in main() / run()
    finder,             \* AdminFinder's configuration fields
    path_queue,         \* Queue: the items not yet taken, oldest first
    unfinished_tasks,   \* Queue.unfinished_tasks
    results,            \* self.results
    workers,            \* per worker thread: position and locals of _worker
    started,            \* number of threads run() has started
    joined,             \* number of threads run() has joined
    sentinels,          \* number of None items run() has put
    puts,               \* history: every item put on the queue, in order
    dequeued,           \* history: per put, how often it was taken by get()
    requested,          \* history: per put, how many GETs were issued for it
    warnings,           \* number of logging.warning calls
    error,              \* the error main() reported, if any
    summary             \* the counts printed by run()'s final line

cvars == <<response, verdict>>

svars == <<args, disk, site, pc, finder, path_queue, unfinished_tasks, results,
           workers, started, joined, sentinels, puts, dequeued, requested,
           warnings, error, summary>>

vars == <<response, verdict, args, disk, site, pc, finder, path_queue,
          unfinished_tasks, results, workers, started, joined, sentinels,
          puts, dequeued, requested, warnings, error, summary>>

Threads == 1..MaxThreads

NoResponse == [kind |-> "none"]

IdleWorker == [pc |-> "unstarted", item |-> None, seq |-> 0]

Unset == [base_url |-> "", threads |-> 0, timeout |-> 0, verbose |-> FALSE,
          headers |-> ""]

ScanInit ==
    /\ pc = "validate"
    /\ finder = Unset
    /\ path_queue = <<>>
    /\ unfinished_tasks = 0
    /\ results = <<>>
    /\ workers = [w \in Threads |-> IdleWorker]
    /\ started = 0
    /\ joined = 0
    /\ sentinels = 0
    /\ puts = <<>>
    /\ dequeued = <<>>
    /\ requested = <<>>
    /\ warnings = 0
    /\ error = "none"
    /\ summary = [checked |-> -1, found |-> -1]


(***************************************************************************)
(* queue.Queue                                                             *)
(***************************************************************************)
\* Queue.get(): the item handed out and the items left behind
QueueFront(q) == Head(q)

QueueAfterGet_peek(q) == q

QueueAfterGet(q) == Tail(q)

\* Queue.put(item): each put is one more unfinished task
Put(items) ==
    /\ path_queue' = path_queue \o [i \in 1..Len(items) |->
                            [seq |-> Len(puts) + i, item |-> items[i]]]
    /\ unfinished_tasks' = unfinished_tasks + Len(items)
    /\ puts' = puts \o items
    /\ dequeued' = dequeued \o [i \in 1..Len(items) |-> 0]
    /\ requested' = requested \o [i \in 1..Len(items) |-> 0]

(***************************************************************************)
(* main(), up to the call of run()                                         *)
(***************************************************************************)
UrlAccepted_any(url) == TRUE

\* the check of line 165
UrlAccepted(url) == ValidUrl(url)

\* lines 165-170
MainValidate ==
    /\ pc = "validate"
    /\ IF UrlAccepted(args.url)
       THEN /\ finder' = [base_url |-> args.url, threads |-> args.threads,
                          timeout |-> args.timeout, verbose |-> args.verbose,
                          headers |-> USER_AGENT]
            /\ pc' = "add_paths"
            /\ UNCHANGED error
       ELSE /\ error' = "url"
            /\ pc' = "exit"
            /\ UNCHANGED finder
    /\ UNCHANGED <<args, disk, site, path_queue, unfinished_tasks, results,
                   workers, started, joined, sentinels, puts, dequeued,
                   requested, warnings, summary>>

\* lines 173-183
MainAddPaths ==
    /\ pc = "add_paths"
    /\ IF args.file # NoFile /\ ~disk.readable
       THEN /\ error' = "file"
            /\ pc' = "exit"
            /\ UNCHANGED <<path_queue, unfinished_tasks, puts, dequeued, requested>>
       ELSE /\ Put(IF args.file # NoFile THEN ReadPaths(disk.lines)
                   ELSE COMMON_ADMIN_PATHS)
            /\ pc' = "run"
            /\ UNCHANGED error
    /\ UNCHANGED <<args, disk, site, finder, results, workers, started, joined,
                   sentinels, warnings, summary>>

(***************************************************************************)
(* AdminFinder.run                                                         *)
(***************************************************************************)
RunStart_verbose ==
    /\ pc = "run"
    /\ pc' = "spawn"
    /\ finder' = [finder EXCEPT !.verbose = TRUE]
    /\ UNCHANGED <<args, disk, site, path_queue, unfinished_tasks,
                   results, workers, started, joined, sentinels, puts,
                   dequeued, requested, warnings, error, summary>>

\* lines 128-132
RunStart ==
    /\ pc = "run"
    /\ pc' = "spawn"
    /\ UNCHANGED <<args, disk, site, finder, path_queue, unfinished_tasks,
                   results, workers, started, joined, sentinels, puts,
                   dequeued, requested, warnings, error, summary>>

\* lines 133-137: one iteration starts one thread; the loop ends at line 140
RunSpawn ==
    /\ pc = "spawn"
    /\ IF started < finder.threads
       THEN /\ started' = started + 1
            /\ workers' = [workers EXCEPT ![started + 1].pc = "get"]
            /\ UNCHANGED pc
       ELSE /\ pc' = "join_queue"
            /\ UNCHANGED <<started, workers>>
    /\ UNCHANGED <<args, disk, site, finder, path_queue, unfinished_tasks,
                   results, joined, sentinels, puts, dequeued, requested,
                   warnings, error, summary>>

\* line 140: Queue.join() returns once unfinished_tasks is zero
RunJoinQueue ==
    /\ pc = "join_queue"
    /\ unfinished_tasks = 0
    /\ pc' = "stop"
    /\ UNCHANGED <<args, disk, site, finder, path_queue, unfinished_tasks,
                   results, workers, started, joined, sentinels, puts,
                   dequeued, requested, warnings, error, summary>>

\* lines 143-144: one iteration puts one None
RunPutSentinel ==
    /\ pc = "stop"
    /\ IF sentinels < finder.threads
       THEN /\ Put(<<None>>)
            /\ sentinels' = sentinels + 1
            /\ UNCHANGED pc
       ELSE /\ pc' = "join_workers"
            /\ UNCHANGED <<sentinels, path_queue, unfinished_tasks, puts,
                           dequeued, requested>>
    /\ UNCHANGED <<args, disk, site, finder, results, workers, started,
                   joined, warnings, error, summary>>

Terminated(w) == workers[w].pc \in {"exited", "dead"}

\* lines 145-146: one iteration joins one thread
RunJoinWorker ==
    /\ pc = "join_workers"
    /\ IF joined < started
       THEN /\ Terminated(joined + 1)
            /\ joined' = joined + 1
            /\ UNCHANGED pc
       ELSE /\ pc' = "summary"
            /\ UNCHANGED joined
    /\ UNCHANGED <<args, disk, site, finder, path_queue, unfinished_tasks,
                   results, workers, started, sentinels, puts, dequeued,
                   requested, warnings, error, summary>>

\* lines 148-151
RunReturn ==
    /\ pc = "summary"
    /\ summary' = [checked |-> Len(path_queue), found |-> Len(results)]
    /\ pc' = "output"
    /\ UNCHANGED <<args, disk, site, finder, path_queue, unfinished_tasks,
                   results, workers, started, joined, sentinels, puts,
                   dequeued, requested, warnings, error>>

\* lines 186-194
MainOutput ==
    /\ pc = "output"
    /\ pc' = "exit"
    /\ UNCHANGED <<args, disk, site, finder, path_queue, unfinished_tasks,
                   results, workers, started, joined, sentinels, puts,
                   dequeued, requested, warnings, error, summary>>

(***************************************************************************)
(* AdminFinder._worker                                                     *)
(***************************************************************************)
\* lines 48-50: get() blocks while the queue is empty
WorkerGet(w) ==
    /\ workers[w].pc = "get"
    /\ path_queue # <<>>
    /\ LET e == QueueFront(path_queue)
       IN  /\ path_queue' = QueueAfterGet(path_queue)
           /\ dequeued' = [dequeued EXCEPT ![e.seq] = @ + 1]
           /\ workers' = [workers EXCEPT ![w] =
                  IF e.item = None THEN [@ EXCEPT !.pc = "exited"]
                  ELSE [@ EXCEPT !.pc = "busy", !.item = e.item, !.seq = e.seq]]
    /\ UNCHANGED <<args, disk, site, pc, finder, unfinished_tasks, results,
                   started, joined, sentinels, puts, requested, warnings,
                   error, summary>>

IsCaught_never(e) == FALSE

\* the except clause of line 80
IsCaught(e) == e \in RequestExceptions

Recorded_always(is_potential_admin) == TRUE

\* the test of line 65
Recorded(is_potential_admin) == is_potential_admin

ListAppend_front(list, e) == <<e>> \o list

ListAppend_overwriting(list, e) ==
    IF list = <<>> THEN <<e>> ELSE [list EXCEPT ![Len(list)] = e]

\* list.append of line 73: one atomic step under the interpreter lock
ListAppend(list, e) == Append(list, e)

\* lines 66-72
ProbeResult(full_url, r) ==
    [url |-> full_url, status_code |-> r.status_code,
     content_length |-> Len(r.text), response_time |-> r.elapsed,
     is_potential_admin |-> TRUE]

\* How one pass through the try statement of lines 52-85 ends for a path:
\*   "ValueError"  urljoin raised at line 53, no request was issued
\*   "response"    the GET of line 55 returned a response
\*   otherwise     the GET raised the named exception
ProbeKind(item) ==
    IF urljoin(finder.base_url, item) = ValueError THEN ValueError
    ELSE site[item].kind

\* lines 52-85: the probe of the path taken at line 48, its classification,
\* the except clause and the finally clause; then back to line 47 or, with
\* an exception still raised, out of _worker: the thread ends
WorkerProcess(w) ==
    /\ workers[w].pc = "busy"
    /\ LET item == workers[w].item
           kind == ProbeKind(item)
           propagates == kind # "response" /\ ~IsCaught(kind)
       IN  /\ requested' = IF kind = ValueError THEN requested
                           ELSE [requested EXCEPT ![workers[w].seq] = @ + 1]
           /\ results' =
                IF kind = "response" /\ Recorded(_analyze_response(site[item]))
                THEN ListAppend(results,
                            ProbeResult(urljoin(finder.base_url, item), site[item]))
                ELSE results
           /\ warnings' = IF kind # "response" /\ IsCaught(kind)
                          THEN warnings + 1 ELSE warnings
           /\ unfinished_tasks' = unfinished_tasks - 1
           /\ workers' = [workers EXCEPT ![w] =
                  [IdleWorker EXCEPT !.pc = IF propagates THEN "dead" ELSE "get"]]
    /\ UNCHANGED <<args, disk, site, pc, finder, path_queue, started, joined,
                   sentinels, puts, dequeued, error, summary>>

MainStep ==
    \/ MainValidate
    \/ MainAddPaths
    \/ RunStart
    \/ RunSpawn
    \/ RunJoinQueue
    \/ RunPutSentinel
    \/ RunJoinWorker
    \/ RunReturn
    \/ MainOutput

WorkerStep(w) ==
    \/ WorkerGet(w)
    \/ WorkerProcess(w)

Init ==
    /\ args \in Args
    /\ disk \in (IF args.file = NoFile THEN {Unreadable} ELSE Disks)
    /\ site \in Sites
    /\ response = NoResponse
    /\ verdict = "unused"
    /\ ScanInit

Next ==
    \/ (MainStep /\ UNCHANGED cvars)
    \/ \E w \in Threads : (WorkerStep(w) /\ UNCHANGED cvars)

Spec == Init /\ [][Next]_vars

\* the threads are scheduled fairly and every request ends within its timeout
FairSpec ==
    /\ Spec
    /\ WF_vars(MainStep /\ UNCHANGED cvars)
    /\ \A w \in Threads : WF_vars(WorkerStep(w) /\ UNCHANGED cvars)

\* Scans of longer path files: one worker, a path file of up to
\* MaxFileLines lines, among them empty lines.
PathFileLines == RawLines \cup {"\n"}

PathInit ==
    /\ args = [url |-> "http://example.com", threads |-> 1,
               timeout |-> DefaultTimeout, verbose |-> FALSE, file |-> "paths.txt"]
    /\ disk \in [readable : {TRUE}, lines : SeqsUpTo(PathFileLines, MaxFileLines)]
    /\ site \in Sites
    /\ response = NoResponse
    /\ verdict = "unused"
    /\ ScanInit

PathSpec == PathInit /\ [][Next]_vars

\* A caller that keeps the AdminFinder: after run() has returned it adds
\* further paths with add_paths() and calls run() again.  run() starts with a
\* fresh list of threads (line 133) and fresh loop counters; the queue, its
\* count of unfinished tasks and self.results are the object's and stay.
MaxRuns == 2

NewPaths == {"dashboard"}

\* how many times run() has returned: each return follows finder.threads
\* puts of None
RunsReturned ==
    IF finder.threads = 0 THEN 0
    ELSE Cardinality({i \in 1..Len(puts) : puts[i] = None}) \div finder.threads

RunAgain ==
    /\ pc = "output"
    /\ RunsReturned < MaxRuns
    /\ \E paths \in SeqsUpTo(NewPaths, 1) : Put(paths)
    /\ pc' = "run"
    /\ workers' = [w \in Threads |-> IdleWorker]
    /\ started' = 0
    /\ joined' = 0
    /\ sentinels' = 0
    /\ UNCHANGED <<args, disk, site, finder, results, warnings, error, summary>>

ReuseInit ==
    /\ args \in [url : {"http://example.com"}, threads : 1..MaxThreads,
                 timeout : {DefaultTimeout}, verbose : {FALSE},
                 file : {"paths.txt"}]
    /\ disk \in [readable : {TRUE}, lines : SeqsUpTo(RawLines, MaxLines)]
    /\ site \in Sites
    /\ response = NoResponse
    /\ verdict = "unused"
    /\ ScanInit

ReuseNext ==
    \/ Next
    \/ (RunAgain /\ UNCHANGED cvars)

ReuseSpec == ReuseInit /\ [][ReuseNext]_vars

ClassifyInit ==
    /\ response \in Responses
    /\ verdict = "pending"
    /\ args = [url |-> "http://example.com", threads |-> 0,
               timeout |-> DefaultTimeout, verbose |-> FALSE, file |-> NoFile]
    /\ disk = Unreadable
    /\ site = [p \in AllPaths |-> FixedOutcome(p)]
    /\ ScanInit

Classify ==
    /\ verdict = "pending"
    /\ verdict' = AnalyzeReturn(response)
    /\ UNCHANGED response
    /\ UNCHANGED svars

ClassifySpec == ClassifyInit /\ [][Classify]_vars

(***************************************************************************)
(* Properties of the classification heuristic (checked under ClassifySpec) *)
(***************************************************************************)
Classified == verdict # "pending"

\* C8: _analyze_response returns False for every response whose status code
\* is not 200, 401 or 403, whatever its body or title contains.
C8_StatusGate ==
    (Classified /\ response.status_code \notin {200, 401, 403}) => verdict = "none"

\* a 404 response whose body contains "admin" has been classified negative
C8_Witness ==
    /\ verdict = "none"
    /\ response.status_code = 404
    /\ In("admin", Lower(response.text))

HasBodyKeyword(text) ==
    \E k \in {"login", "admin", "dashboard", "sign in", "authentication", "auth",
              "password"} : In(k, Lower(text))

\* C9: a response with status 200, 401 or 403 whose lower-cased body
\* contains one of login, admin, dashboard, sign in, authentication, auth,
\* password is classified positive; a 200 response with an empty body is
\* classified negative.
C9_BodyKeywords ==
    Classified =>
        /\ (response.status_code \in {200, 401, 403} /\ HasBodyKeyword(response.text))
              => verdict # "none"
        /\ (response.status_code = 200 /\ response.text = "") => verdict = "none"

\* the 200 response with body "Admin Login" has been classified positive
C9_Witness ==
    /\ verdict # "none"
    /\ Classified
    /\ response.status_code = 200
    /\ response.text = "Admin Login"

\* the text between the first <title> and the first </title> of a body
HasTitle(text) ==
    /\ In("<title>", Lower(text))
    /\ Find(Lower(text), "</title>") >= Find(Lower(text), "<title>") + 7

TitleText(text) ==
    SubSeq(Lower(text), Find(Lower(text), "<title>") + 8, Find(Lower(text), "</title>"))

HasTitleKeyword(text) ==
    /\ HasTitle(text)
    /\ \E k \in {"admin", "%&", "@#", "dashboard", "control panel"} :
           In(k, TitleText(text))

\* C10: a response with an eligible status whose body matches no body
\* keyword is classified positive through the title branch when the text
\* between the first <title> and the first </title> contains one of the
\* title keywords; a 200 response with <title>Dashboard</title> gets its
\* positive verdict from the title branch and not from the body branch.
C10_TitleBranch ==
    Classified =>
        /\ (/\ response.status_code \in {200, 401, 403}
            /\ ~HasBodyKeyword(response.text)
            /\ HasTitleKeyword(response.text)) => verdict = "title"
        /\ (/\ response.status_code = 200
            /\ response.text = "<title>Dashboard</title>") => verdict = "title"

\* C11: the title check is skipped exactly when <title> does not occur in
\* the lower-cased body: the test "> 7" on the offset search result fails
\* for a missing tag only, and for every position of the tag, position 0
\* included, it passes and the title keywords are examined.
C11_SkippedOnlyWhenAbsent ==
    Classified =>
        /\ TitleTagSeen(Content(response)) <=> In("<title>", Lower(response.text))
        /\ (/\ response.status_code \in {200, 401, 403}
            /\ ~HasBodyKeyword(response.text)
            /\ Find(Lower(response.text), "<title>") = 0
            /\ HasTitleKeyword(response.text)) => verdict = "title"

(***************************************************************************)
(* Properties of a scan (checked under Spec, liveness under FairSpec)      *)
(***************************************************************************)
RECURSIVE Sum(_)
Sum(q) == IF q = <<>> THEN 0 ELSE Head(q) + Sum(Tail(q))

\* run() has returned to main()
RunReturned == pc \in {"output", "exit"} /\ error = "none"

\* the queue entries that add_paths put: every put that is not a sentinel
PathEntries == {i \in 1..Len(puts) : puts[i] # None}

\* C1: when run() has returned, the number of GETs issued by the workers
\* equals the number of candidate paths that add_paths put on the queue.
C1_ProbesEqualPaths ==
    RunReturned => Sum(requested) = Cardinality(PathEntries)

\* C2: every queue entry is taken by at most one worker and probed at most
\* once, no two workers hold the same entry, and no entry that was taken is
\* on the queue again.
C2_AtMostOnce ==
    /\ \A i \in 1..Len(puts) : dequeued[i] <= 1 /\ requested[i] <= 1
    /\ \A v, w \in Threads :
          (v # w /\ workers[v].pc = "busy" /\ workers[w].pc = "busy")
              => workers[v].seq # workers[w].seq
    /\ \A k \in 1..Len(path_queue) :
          /\ dequeued[path_queue[k].seq] = 0
          /\ \A j \in 1..(k - 1) : path_queue[j].seq < path_queue[k].seq

\* two workers hold an entry each while an earlier entry has been probed
C2_Witness ==
    /\ \E v, w \in Threads :
          v # w /\ workers[v].pc = "busy" /\ workers[w].pc = "busy"
    /\ \E i \in 1..Len(puts) : requested[i] = 1

\* run() has been called and has not returned
InRun == pc \in {"run", "spawn", "join_queue", "stop", "join_workers", "summary"}

\* C3: run() eventually returns, and then the path queue is empty and every
\* worker thread it started has terminated.  No step of the program can be
\* repeated for ever (each one starts a thread, moves the main thread on, or
\* takes or finishes a queue item), so run() returns if and only if the
\* program never comes to a halt inside run().
C3_RunTerminates ==
    /\ InRun => ENABLED Next
    /\ RunReturned =>
          /\ path_queue = <<>>
          /\ \A w \in 1..started : Terminated(w)

\* the entries whose request completed and was classified positive
PositiveEntries ==
    {i \in PathEntries :
        /\ ProbeKind(puts[i]) = "response"
        /\ _analyze_response(site[puts[i]])}

\* the Probe Result of entry i
ResultOf(i) ==
    [url |-> urljoin(finder.base_url, puts[i]),
     status_code |-> site[puts[i]].status_code,
     content_length |-> Len(site[puts[i]].text),
     response_time |-> site[puts[i]].elapsed,
     is_potential_admin |-> TRUE]

\* C4: when run() returns, results holds exactly one Probe Result for every
\* queued path whose request completed and was classified positive, none
\* for any other path, and every entry has is_potential_admin = True.
C4_ExactResults ==
    RunReturned =>
        /\ Len(results) = Cardinality(PositiveEntries)
        /\ \A i \in PositiveEntries :
              Cardinality({k \in 1..Len(results) : results[k] = ResultOf(i)})
                 = Cardinality({j \in PositiveEntries : ResultOf(j) = ResultOf(i)})
        /\ \A k \in 1..Len(results) : results[k].is_potential_admin = TRUE

\* run() has returned a match although another path was negative or failed
C4_Witness ==
    /\ RunReturned
    /\ results # <<>>
    /\ PathEntries \ PositiveEntries # {}

\* worker w finishes a probe that fails with a RequestException
TransportFailureStep(w) ==
    /\ workers[w].pc = "busy"
    /\ urljoin(finder.base_url, workers[w].item) # ValueError
    /\ site[workers[w].item].kind \in {"ConnectionError", "Timeout"}
    /\ workers'[w] # workers[w]

\* C5: a probe that fails with a RequestException logs one warning, leaves
\* the results unchanged, puts nothing back on the queue, marks the item
\* done, and the worker goes back to take the next path; run() goes on.
C5_TransportError ==
    [][\A w \in Threads :
          TransportFailureStep(w) =>
              /\ warnings' = warnings + 1
              /\ results' = results
              /\ path_queue' = path_queue
              /\ puts' = puts
              /\ unfinished_tasks' = unfinished_tasks - 1
              /\ workers'[w].pc = "get"
              /\ pc' = pc]_vars

\* with one worker, a path was probed after an earlier one had failed
C5_Witness ==
    /\ finder.threads = 1
    /\ warnings >= 1
    /\ \E i, j \in PathEntries :
          /\ i < j
          /\ site[puts[i]].kind = "Timeout"
          /\ requested[i] = 1
          /\ requested[j] = 1

\* C6: once run() has started, no error raised while a path is processed
\* aborts the scan: after a worker has been ended by an exception, run()
\* still does not come to a halt before it returns, and when it returns
\* every other queued path has been probed.
C6_NoErrorAborts ==
    (\E w \in Threads : workers[w].pc = "dead") =>
        /\ InRun => ENABLED Next
        /\ RunReturned =>
              \A i \in PathEntries :
                  ProbeKind(puts[i]) # ValueError => requested[i] = 1

\* a URL without the http:// or https:// prefix, or a path file that
\* cannot be read
ConfigError ==
    \/ ~(StartsWith(args.url, "http://") \/ StartsWith(args.url, "https://"))
    \/ (args.file # NoFile /\ ~disk.readable)

\* C7: on a configuration error main() reports the error and returns before
\* run() is called: no worker thread is started and no request is issued.
C7_ConfigError ==
    ConfigError =>
        /\ pc \in {"validate", "add_paths", "exit"}
        /\ pc = "exit" => error \in {"url", "file"}
        /\ started = 0
        /\ \A w \in Threads : workers[w].pc = "unstarted"
        /\ Sum(requested) = 0

\* main() has returned after rejecting ftp://example.com
C7_Witness ==
    /\ args.url = "ftp://example.com"
    /\ pc = "exit"
    /\ error = "url"

\* the positions of the lines of the path file that are not blank
NonBlankLines == {i \in 1..Len(disk.lines) : Strip(disk.lines[i]) # ""}

\* the items that add_paths put, in queue order
PathItems == SelectSeq(puts, LAMBDA x : x # None)

\* main() has read the path file and filled the queue
PathsAdded == args.file # NoFile /\ pc \notin {"validate", "add_paths"} /\ error = "none"

ValidPath(line) == Strip(line) # "" /\ urljoin("http://example.com", Strip(line)) # ValueError

\* C12: with a path file the queue receives exactly one entry per line that
\* is not empty after trimming, in file order and trimmed; blank lines give
\* no entry, and a file of 3 valid paths and 2 blank lines gives 3 probes.
C12_FilePaths ==
    PathsAdded =>
        /\ Len(PathItems) = Cardinality(NonBlankLines)
        /\ \A i \in NonBlankLines :
              PathItems[Cardinality({j \in NonBlankLines : j <= i})] = Strip(disk.lines[i])
        /\ \A k \in 1..Len(PathItems) :
              /\ PathItems[k] # ""
              /\ SubSeq(PathItems[k], 1, 1) \notin {" ", "\n", "\t", "\r"}
              /\ SubSeq(PathItems[k], Len(PathItems[k]), Len(PathItems[k]))
                    \notin {" ", "\n", "\t", "\r"}
        /\ (/\ RunReturned
            /\ Len(disk.lines) = 5
            /\ Cardinality({i \in 1..5 : ValidPath(disk.lines[i])}) = 3
            /\ Cardinality({i \in 1..5 : Strip(disk.lines[i]) = ""}) = 2)
              => Sum(requested) = 3

\* the scan of a file of 3 valid paths and 2 blank lines, one of them
\* empty and one of spaces, has returned after 3 probes
C12_Witness ==
    /\ RunReturned
    /\ args.file # NoFile
    /\ Len(disk.lines) = 5
    /\ Cardinality({i \in 1..5 : ValidPath(disk.lines[i])}) = 3
    /\ \E i, j \in 1..5 : disk.lines[i] = "\n" /\ disk.lines[j] = " \n"
    /\ Sum(requested) = 3

\* C13: the final line printed by run() reports the counts of the scan: its
\* "paths checked" number is the number of candidate paths probed during
\* the run and its "found" number is the length of the returned results.
C13_SummaryCounts ==
    RunReturned =>
        /\ summary.checked = Sum(requested)
        /\ summary.found = Len(results)

RECURSIVE ScanInOrder(_)
\* the results of probing the given paths one after the other, in order
ScanInOrder(paths) ==
    IF paths = <<>> THEN <<>>
    ELSE LET p == Head(paths)
             hit == /\ urljoin(finder.base_url, p) # ValueError
                    /\ site[p].kind = "response"
                    /\ _analyze_response(site[p])
         IN  (IF hit
              THEN <<[url |-> urljoin(finder.base_url, p),
                      status_code |-> site[p].status_code,
                      content_length |-> Len(site[p].text),
                      response_time |-> site[p].elapsed,
                      is_potential_admin |-> TRUE]>>
              ELSE <<>>) \o ScanInOrder(Tail(paths))

\* the number of times e occurs in the sequence q
Count(q, e) == Cardinality({k \in 1..Len(q) : q[k] = e})

\* C14: for a given host and path list the results returned by run() are,
\* as a multiset, those of probing the paths one after the other, whatever
\* the interleaving and the number of workers: only the order may differ, no
\* append is lost and none is duplicated.
C14_SameMultiset ==
    RunReturned =>
        /\ Len(results) = Len(ScanInOrder(PathItems))
        /\ \A e \in Range(results) \cup Range(ScanInOrder(PathItems)) :
              Count(results, e) = Count(ScanInOrder(PathItems), e)

\* two workers have returned the matches in another order than the queue's
C14_Witness ==
    /\ RunReturned
    /\ started = 2
    /\ Len(results) >= 2
    /\ results # ScanInOrder(PathItems)

\* C15: the scan configuration (base_url, threads, timeout, verbose and the
\* request headers) is set before run() is called and no step of run() or
\* of a worker changes it.
C15_ConfigUnchanged ==
    [][pc # "validate" => finder' = finder]_vars

\* run() has returned after probes by its workers, with the configuration
\* that main() was given
C15_Witness ==
    /\ RunReturned
    /\ Sum(requested) >= 2
    /\ finder.verbose
    /\ finder = [base_url |-> args.url, threads |-> args.threads,
                 timeout |-> args.timeout, verbose |-> args.verbose,
                 headers |-> USER_AGENT]

\* C16: results is append-only: in every step its old contents are a prefix
\* of its new contents, and it is never longer than the number of paths
\* taken from the queue so far.
C16_AppendOnly ==
    [][/\ Len(results) <= Len(results')
       /\ SubSeq(results', 1, Len(results)) = results
       /\ Len(results') <=
             Cardinality({i \in 1..Len(puts') : puts'[i] # None /\ dequeued'[i] >= 1})]_vars

\* a second, different result has been appended behind the first
C16_Witness ==
    /\ Len(results) >= 2
    /\ results[1] # results[2]

\* the puts that are shutdown sentinels
SentinelEntries == {i \in 1..Len(puts) : puts[i] = None}

\* C17: run() puts the None sentinels only after every path has been taken
\* from the queue and its processing has finished, so no worker takes a
\* sentinel while a path is still queued or in flight; and each worker takes
\* exactly one sentinel.
C17_SentinelsLast ==
    /\ SentinelEntries # {} =>
          /\ \A i \in PathEntries : dequeued[i] = 1
          /\ \A k \in 1..Len(path_queue) : path_queue[k].item = None
          /\ \A w \in Threads : workers[w].pc # "busy"
          /\ unfinished_tasks = Cardinality(SentinelEntries)
    /\ \A w \in Threads : workers[w].pc = "exited" => SentinelEntries # {}
    /\ Cardinality({i \in SentinelEntries : dequeued[i] >= 1}) <= started
    /\ RunReturned =>
          /\ \A w \in 1..started : workers[w].pc = "exited"
          /\ Cardinality({i \in SentinelEntries : dequeued[i] = 1}) = started

\* C18: when run() has returned, the queue counts no unfinished task, so the
\* same AdminFinder can take new paths and run() again; that run, too, goes
\* on to its return as long as no worker has been ended by an exception.
C18_Reusable ==
    /\ (pc = "output" /\ error = "none") => unfinished_tasks = 0
    /\ (InRun /\ \A w \in Threads : workers[w].pc # "dead") => ENABLED ReuseNext

=============================================================================
